---------------------------- MODULE Spec2Model ----------------------------
(***************************************************************************)
(* babyenv: Parse walks the fields of a struct and fills every field that  *)
(* carries an `env` tag from the process environment (env.go).             *)
(*                                                                         *)
(* Strings are sequences of one-character strings, so that splitting a    *)
(* tag, trimming it and parsing a number are computed character by         *)
(* character.  Integers are decimal numerals (sign and digits), so that    *)
(* the 32 and 64 bit range checks of strconv.ParseInt keep their width.    *)
(***************************************************************************)
EXTENDS Integers, Sequences, FiniteSets, TLC

(***************************************************************************)
(* Bounds of the model.                                                    *)
(***************************************************************************)
\* the largest number of fields of the struct handed to Parse
MaxFields == 2

(***************************************************************************)
(* Strings.                                                                *)
(***************************************************************************)
Empty == << >>

sDash == << "-" >>
sA == << "A" >>
sZero == << "0" >>
sOne == << "1" >>
sTrue == << "t", "r", "u", "e" >>
sSixteen == << "1", "6" >>
sJunk == << "x", "y" >>
sBig32 == << "2", "1", "4", "7", "4", "8", "3", "6", "4", "8" >>
sRequired == << "r", "e", "q", "u", "i", "r", "e", "d" >>
sComma == << "," >>
sSpace == << " " >>

Digits == << "0", "1", "2", "3", "4", "5", "6", "7", "8", "9" >>

IsDigit(c) == \E d \in 1..10 : Digits[d] = c

DigitVal(c) == (CHOOSE d \in 1..10 : Digits[d] = c) - 1

\* strings.Split(s, sep) for a one-character separator: the pieces between
\* the separators, always at least one piece.
RECURSIVE SplitFrom(_, _, _)
SplitFrom(s, sep, cur) ==
    IF s = Empty THEN << cur >>
    ELSE IF Head(s) = sep THEN << cur >> \o SplitFrom(Tail(s), sep, Empty)
    ELSE SplitFrom(Tail(s), sep, Append(cur, Head(s)))

Split(s, sep) == SplitFrom(s, sep, Empty)

IsSpace(c) == c \in { " ", "\t", "\n", "\r" }

RECURSIVE TrimLeft(_)
TrimLeft(s) ==
    IF s # Empty /\ IsSpace(Head(s)) THEN TrimLeft(Tail(s)) ELSE s

RECURSIVE TrimRight(_)
TrimRight(s) ==
    IF s # Empty /\ IsSpace(s[Len(s)]) THEN TrimRight(SubSeq(s, 1, Len(s) - 1)) ELSE s

\* strings.TrimSpace
TrimSpace(s) == TrimRight(TrimLeft(s))

(***************************************************************************)
(* Decimal numerals: [neg, mag], mag the digits without leading zeros.     *)
(***************************************************************************)
RECURSIVE StripZeros(_)
StripZeros(ds) ==
    IF Len(ds) > 1 /\ Head(ds) = 0 THEN StripZeros(Tail(ds)) ELSE ds

RECURSIVE LexLess(_, _)
LexLess(a, b) ==
    IF a = << >> THEN FALSE
    ELSE IF Head(a) # Head(b) THEN Head(a) < Head(b)
    ELSE LexLess(Tail(a), Tail(b))

\* a < b for two magnitudes without leading zeros
MagLess(a, b) ==
    \/ Len(a) < Len(b)
    \/ Len(a) = Len(b) /\ LexLess(a, b)

Num(neg, mag) == [neg |-> neg /\ mag # << 0 >>, mag |-> mag]

Zero == Num(FALSE, << 0 >>)

\* 2^31, 2^32 - 1, 2^63 and 2^64 - 1
Pow2_31 == << 2, 1, 4, 7, 4, 8, 3, 6, 4, 8 >>
MaxUint32 == << 4, 2, 9, 4, 9, 6, 7, 2, 9, 5 >>
Pow2_63 == << 9, 2, 2, 3, 3, 7, 2, 0, 3, 6, 8, 5, 4, 7, 7, 5, 8, 0, 8 >>
MaxUint64 == << 1, 8, 4, 4, 6, 7, 4, 4, 0, 7, 3, 7, 0, 9, 5, 5, 1, 6, 1, 5 >>

(***************************************************************************)
(* strconv.                                                                *)
(***************************************************************************)
NumError(fn, num, cause) == [type |-> "NumError", Func |-> fn, Num |-> num, Err |-> cause]

TrueStrings ==
    { << "1" >>, << "t" >>, << "T" >>, << "T", "R", "U", "E" >>,
      << "t", "r", "u", "e" >>, << "T", "r", "u", "e" >> }

FalseStrings ==
    { << "0" >>, << "f" >>, << "F" >>, << "F", "A", "L", "S", "E" >>,
      << "f", "a", "l", "s", "e" >>, << "F", "a", "l", "s", "e" >> }

\* strconv.ParseBool
ParseBool(s) ==
    IF s \in TrueStrings THEN [ok |-> TRUE, b |-> TRUE]
    ELSE IF s \in FalseStrings THEN [ok |-> TRUE, b |-> FALSE]
    ELSE [ok |-> FALSE, err |-> NumError("ParseBool", s, "ErrSyntax")]

\* strconv.ParseUint(s, 10, bitSize) from the digits read so far: a
\* character that is no digit is a syntax error, a value past the largest
\* unsigned value of the width is a range error, whichever comes first.
RECURSIVE ParseUintFrom(_, _, _)
ParseUintFrom(s, acc, maxVal) ==
    IF s = Empty THEN [ok |-> TRUE, mag |-> acc]
    ELSE IF ~IsDigit(Head(s)) THEN [ok |-> FALSE, cause |-> "ErrSyntax"]
    ELSE LET n1 == StripZeros(Append(acc, DigitVal(Head(s))))
         IN  IF MagLess(maxVal, n1) THEN [ok |-> FALSE, cause |-> "ErrRange"]
             ELSE ParseUintFrom(Tail(s), n1, maxVal)

ParseUint(s, bitSize) ==
    IF s = Empty THEN [ok |-> FALSE, cause |-> "ErrSyntax"]
    ELSE ParseUintFrom(s, << 0 >>, IF bitSize = 32 THEN MaxUint32 ELSE MaxUint64)

\* strconv.ParseInt(s, 10, bitSize)
ParseInt(s, bitSize) ==
    IF s = Empty THEN [ok |-> FALSE, err |-> NumError("ParseInt", s, "ErrSyntax")]
    ELSE LET neg == Head(s) = "-"
             rest == IF Head(s) \in { "+", "-" } THEN Tail(s) ELSE s
             un == ParseUint(rest, bitSize)
             cutoff == IF bitSize = 32 THEN Pow2_31 ELSE Pow2_63
         IN  IF ~un.ok /\ un.cause # "ErrRange"
                 THEN [ok |-> FALSE, err |-> NumError("ParseInt", s, un.cause)]
             ELSE IF ~un.ok
                 THEN [ok |-> FALSE, err |-> NumError("ParseInt", s, "ErrRange")]
             ELSE IF ~neg /\ ~MagLess(un.mag, cutoff)
                 THEN [ok |-> FALSE, err |-> NumError("ParseInt", s, "ErrRange")]
             ELSE IF neg /\ MagLess(cutoff, un.mag)
                 THEN [ok |-> FALSE, err |-> NumError("ParseInt", s, "ErrRange")]
             ELSE [ok |-> TRUE, n |-> Num(neg, un.mag)]

(***************************************************************************)
(* reflect: types, values and the heap that pointer values point into.     *)
(***************************************************************************)
BasicType(kind) == [kind |-> kind]

SliceOf(t) == [kind |-> "Slice", elem |-> t]

PtrTo(t) == [kind |-> "Ptr", elem |-> t]

Kind(t) == t.kind

Elem(t) == t.elem

tString == BasicType("String")
tBool == BasicType("Bool")
tInt == BasicType("Int")
tInt64 == BasicType("Int64")
tBytes == SliceOf(BasicType("Uint8"))

\* A value is its type and its contents: the characters of a string, a
\* boolean, a numeral, the bytes of a slice (or nil), the heap address a
\* pointer holds (NilAddr for nil).
Value(t, v) == [type |-> t, v |-> v]

NilAddr == 0

Bytes(s) == [nil |-> FALSE, bytes |-> s]

NilSlice == [nil |-> TRUE, bytes |-> Empty]

\* reflect.Value.Set panics unless the value is assignable to the type of
\* the field; with no defined types in play that is identity of the types.
AssignableTo(valueType, fieldType) == valueType = fieldType

\* &x for a fresh variable x: the variable is appended to the heap
AddrOfNew(heap) == Len(heap) + 1

(***************************************************************************)
(* The error values of env.go.                                             *)
(***************************************************************************)
Nil == [type |-> "nil"]

ErrorNotAStructPointer == [type |-> "ErrorNotAStructPointer"]

ErrorUnsettable(fieldName) == [type |-> "ErrorUnsettable", FieldName |-> fieldName]

ErrorUnsupportedType(t) == [type |-> "ErrorUnsupportedType", Type |-> t]

ErrorEnvVarRequired(name) == [type |-> "ErrorEnvVarRequired", Name |-> name]

(***************************************************************************)
(* The setters.  Each returns what the call does to the field: ctl is      *)
(* "ok" (returned nil), "err" (returned err) or "panic"; val is the field  *)
(* afterwards and heap the heap afterwards.                                *)
(***************************************************************************)
Done(val, heap) == [ctl |-> "ok", val |-> val, heap |-> heap, err |-> Nil]

Fail(val, heap, e) == [ctl |-> "err", val |-> val, heap |-> heap, err |-> e]

Panic(val, heap) == [ctl |-> "panic", val |-> val, heap |-> heap, err |-> Nil]

\* v.Set(reflect.ValueOf(&x)) for a fresh variable x holding pointee
SetPointerToNew(v, pointee, heap) ==
    IF AssignableTo(PtrTo(pointee.type), v.type)
        THEN Done(Value(v.type, AddrOfNew(heap)), Append(heap, pointee))
        ELSE Panic(v, heap)

\* setBool returning nil when the string does not parse
setBoolSwallowsError(v, s, heap) ==
    IF s = Empty THEN Done(Value(v.type, FALSE), heap)
    ELSE LET r == ParseBool(s)
         IN  IF ~r.ok THEN Done(v, heap)
             ELSE Done(Value(v.type, r.b), heap)

setBool(v, s, heap) ==
    IF s = Empty THEN Done(Value(v.type, FALSE), heap)
    ELSE LET r == ParseBool(s)
         IN  IF ~r.ok THEN Fail(v, heap, r.err)
             ELSE Done(Value(v.type, r.b), heap)

\* setInt storing the 0 that ParseInt returns beside its error
setIntStoresOnError(v, s, heap) ==
    IF s = Empty THEN Done(Value(v.type, Zero), heap)
    ELSE LET r == ParseInt(s, 32)
         IN  IF ~r.ok THEN Fail(Value(v.type, Zero), heap, r.err)
             ELSE Done(Value(v.type, r.n), heap)

\* setInt parsing into 64 bits
setIntBitSize64(v, s, heap) ==
    IF s = Empty THEN Done(Value(v.type, Zero), heap)
    ELSE LET r == ParseInt(s, 64)
         IN  IF ~r.ok THEN Fail(v, heap, r.err)
             ELSE Done(Value(v.type, r.n), heap)

setInt(v, s, heap) ==
    IF s = Empty THEN Done(Value(v.type, Zero), heap)
    ELSE LET r == ParseInt(s, 32)
         IN  IF ~r.ok THEN Fail(v, heap, r.err)
             ELSE Done(Value(v.type, r.n), heap)

setInt64(v, s, heap) ==
    IF s = Empty THEN Done(Value(v.type, Zero), heap)
    ELSE LET r == ParseInt(s, 64)
         IN  IF ~r.ok THEN Fail(v, heap, r.err)
             ELSE Done(Value(v.type, r.n), heap)

setBoolPointer(v, s, heap) ==
    IF s = Empty THEN SetPointerToNew(v, Value(tBool, FALSE), heap)
    ELSE LET r == ParseBool(s)
         IN  IF ~r.ok THEN Fail(v, heap, r.err)
             ELSE SetPointerToNew(v, Value(tBool, r.b), heap)

setIntPointer(v, s, heap) ==
    IF s = Empty THEN SetPointerToNew(v, Value(tInt, Zero), heap)
    ELSE LET r == ParseInt(s, 32)
         IN  IF ~r.ok THEN Fail(v, heap, r.err)
             ELSE SetPointerToNew(v, Value(tInt, r.n), heap)

\* the empty case takes the address of `n := 0`, an int
setInt64Pointer(v, s, heap) ==
    IF s = Empty THEN SetPointerToNew(v, Value(tInt, Zero), heap)
    ELSE LET r == ParseInt(s, 64)
         IN  IF ~r.ok THEN Fail(v, heap, r.err)
             ELSE SetPointerToNew(v, Value(tInt64, r.n), heap)

(***************************************************************************)
(* Struct fields and their tags.                                           *)
(***************************************************************************)
\* reflect.StructTag.Get: the value of the key, "" when the tag has none
Get(tag, key) == IF key \in DOMAIN tag THEN tag[key] ELSE Empty

UpperCase == { "A", "B", "C", "D", "E", "F" }

\* a field of a struct reached through a pointer can be set iff exported
CanSet(decl) == Head(decl.Name) \in UpperCase

\* os.Getenv: the value of the variable, "" when it is not set
Getenv(e, name) == IF name \in DOMAIN e THEN e[name] ELSE Empty

(***************************************************************************)
(* parseFields, one iteration of its loop.                                 *)
(***************************************************************************)
\* required without the strings.TrimSpace
requiredUntrimmed(tagValParts) ==
    Len(tagValParts) >= 2 /\ tagValParts[2] = sRequired

\* the second part of the tag, trimmed, is "required"
required(tagValParts) ==
    Len(tagValParts) >= 2 /\ TrimSpace(tagValParts[2]) = sRequired

\* shouldSetDefault without the test for the "-" default
shouldSetDefaultAnyDefault(envVarVal, defaultVal) ==
    Len(envVarVal) = 0 /\ Len(defaultVal) > 0

shouldSetDefault(envVarVal, defaultVal) ==
    Len(envVarVal) = 0 /\ Len(defaultVal) > 0 /\ defaultVal # sDash

\* `continue` where the code returns ErrorUnsupportedType
unsupportedSkipped(v, heap) == Done(v, heap)

\* return &ErrorUnsupportedType{field.Type()}
unsupported(v, heap) == Fail(v, heap, ErrorUnsupportedType(v.type))

\* the slice case without the switch on the kind of the elements
setSliceAnyElem(v, s, heap) == Done(Value(v.type, Bytes(s)), heap)

\* case reflect.Slice
setSlice(v, s, heap) ==
    IF Kind(Elem(v.type)) = "Uint8"
        THEN Done(Value(v.type, Bytes(s)), heap)
        ELSE unsupported(v, heap)

\* case reflect.Ptr
setPtr(v, s, heap) ==
    LET ptr == Elem(v.type)
    IN  CASE Kind(ptr) = "String" -> SetPointerToNew(v, Value(tString, s), heap)
          [] Kind(ptr) = "Bool" -> setBoolPointer(v, s, heap)
          [] Kind(ptr) = "Int" -> setIntPointer(v, s, heap)
          [] Kind(ptr) = "Int64" -> setInt64Pointer(v, s, heap)
          [] Kind(ptr) = "Slice" ->
                IF Kind(Elem(ptr)) = "Uint8"
                    THEN SetPointerToNew(v, Value(tBytes, Bytes(s)), heap)
                    ELSE unsupported(v, heap)
          [] OTHER -> unsupported(v, heap)

\* The switch on the kind of the field.  Every case of the code sets the
\* field from defaultVal when shouldSetDefault and from envVarVal
\* otherwise; s is the one of the two the case uses.
setField(v, s, heap) ==
    CASE Kind(v.type) = "String" -> Done(Value(v.type, s), heap)
      [] Kind(v.type) = "Bool" -> setBool(v, s, heap)
      [] Kind(v.type) = "Int" -> setInt(v, s, heap)
      [] Kind(v.type) = "Int64" -> setInt64(v, s, heap)
      [] Kind(v.type) = "Slice" -> setSlice(v, s, heap)
      [] Kind(v.type) = "Ptr" -> setPtr(v, s, heap)
      [] OTHER -> unsupported(v, heap)

\* the loop body taking "-" for the name of a variable
parseFieldDashIsName(decl, v, heap, e) ==
    LET tagVal == Get(decl.Tag, "env")
    IN  IF tagVal = Empty THEN Done(v, heap)
        ELSE IF ~CanSet(decl) THEN Fail(v, heap, ErrorUnsettable(decl.Name))
        ELSE LET tagValParts == Split(tagVal, ",")
                 envVarVal == Getenv(e, tagValParts[1])
                 defaultVal == Get(decl.Tag, "default")
             IN  IF envVarVal = Empty /\ required(tagValParts)
                     THEN Fail(v, heap, ErrorEnvVarRequired(tagValParts[1]))
                 ELSE IF shouldSetDefault(envVarVal, defaultVal)
                     THEN setField(v, defaultVal, heap)
                     ELSE setField(v, envVarVal, heap)

\* the loop body with the CanSet check after the lookup of the variable
\* and the required check
parseFieldRequiredFirst(decl, v, heap, e) ==
    LET tagVal == Get(decl.Tag, "env")
    IN  IF tagVal = Empty \/ tagVal = sDash THEN Done(v, heap)
        ELSE LET tagValParts == Split(tagVal, ",")
                 envVarVal == Getenv(e, tagValParts[1])
                 defaultVal == Get(decl.Tag, "default")
             IN  IF envVarVal = Empty /\ required(tagValParts)
                     THEN Fail(v, heap, ErrorEnvVarRequired(tagValParts[1]))
                 ELSE IF ~CanSet(decl) THEN Fail(v, heap, ErrorUnsettable(decl.Name))
                 ELSE IF shouldSetDefault(envVarVal, defaultVal)
                     THEN setField(v, defaultVal, heap)
                     ELSE setField(v, envVarVal, heap)

\* The body of the loop for the field declared decl and holding v.
parseField(decl, v, heap, e) ==
    LET fieldTags == decl.Tag
        fieldName == decl.Name
        tagVal == Get(fieldTags, "env")
    IN  IF tagVal = Empty \/ tagVal = sDash THEN Done(v, heap)
        ELSE IF ~CanSet(decl) THEN Fail(v, heap, ErrorUnsettable(fieldName))
        ELSE LET tagValParts == Split(tagVal, ",")
                 envVarName == tagValParts[1]
                 envVarVal == Getenv(e, envVarName)
             IN  IF envVarVal = Empty /\ required(tagValParts)
                     THEN Fail(v, heap, ErrorEnvVarRequired(envVarName))
                 ELSE LET defaultVal == Get(fieldTags, "default")
                      IN  IF shouldSetDefault(envVarVal, defaultVal)
                              THEN setField(v, defaultVal, heap)
                              ELSE setField(v, envVarVal, heap)

(***************************************************************************)
(* The state: the argument of Parse, the struct it points to (the field    *)
(* declarations and the field values), the environment, and where the      *)
(* call is.                                                                *)
(***************************************************************************)
VARIABLES
    cfg,      \* the argument: its kind and the kind of what it points to
    fields,   \* the declarations of the fields of the struct, in order
    vals,     \* the values of the fields of the struct
    vals0,    \* the values of the fields before the call
    heap,     \* the variables that pointers point to
    env,      \* the environment: the variables that are set, with values
    pc,       \* "call", "parseFields", "returned" or "panicked"
    i,        \* the loop index of parseFields (fields are numbered from 1)
    err,      \* the error Parse returned
    prev      \* how an earlier call on another struct of the type ended

vars == << cfg, fields, vals, vals0, heap, env, pc, i, err, prev >>

(***************************************************************************)
(* The inputs.                                                             *)
(***************************************************************************)
StructPointer == [kind |-> "Ptr", elemKind |-> "Struct"]

\* a pointer to a struct, a struct passed by value, nil, a nil pointer to
\* a struct, a pointer to an int, a pointer to a pointer to a struct
CfgArgs ==
    { StructPointer,
      [kind |-> "Struct", elemKind |-> "Invalid"],
      [kind |-> "Invalid", elemKind |-> "Invalid"],
      [kind |-> "Ptr", elemKind |-> "Invalid"],
      [kind |-> "Ptr", elemKind |-> "Int"],
      [kind |-> "Ptr", elemKind |-> "Ptr"] }

SupportedTypes ==
    { tString, tBool, tInt, tInt64, tBytes,
      PtrTo(tString), PtrTo(tBool), PtrTo(tInt), PtrTo(tInt64), PtrTo(tBytes) }

tUint32 == BasicType("Uint32")
tUint64 == BasicType("Uint64")
tStruct == BasicType("Struct")
tMap == BasicType("Map")

UnsupportedTypes ==
    { tUint32, tUint64, tStruct, tMap, SliceOf(tInt), PtrTo(tStruct), PtrTo(SliceOf(tInt)) }

Types == SupportedTypes \cup UnsupportedTypes

\* a tag with the keys that are given: e and d are << >> (no such key) or
\* << s >> (the key with value s)
TagOf(e, d) ==
    [k \in (IF e = << >> THEN {} ELSE { "env" }) \cup (IF d = << >> THEN {} ELSE { "default" })
        |-> IF k = "env" THEN e[1] ELSE d[1]]

EnvTags ==
    { << >>, << Empty >>, << sDash >>, << sA >>,
      << sA \o sComma \o sRequired >>,
      << sA \o sComma \o sSpace \o sRequired \o sSpace >>,
      << sA \o sComma \o sJunk >> }

DefaultTags ==
    { << >>, << Empty >>, << sDash >>, << sOne >>, << sSixteen >>, << sTrue >> }

\* the values of the variable A when it is set
EnvVals == { Empty, sZero, sOne, sJunk, sBig32 }

\* the environments: A is not set, or set to one of EnvVals
Envs == { << >> } \cup { [n \in { sA } |-> v] : v \in EnvVals }

FieldName(j, exported) == << IF exported THEN "F" ELSE "f", Digits[j + 1] >>

Template(exported, t, tag) == [exported |-> exported, Type |-> t, Tag |-> tag]

Decl(j, tpl) == [Name |-> FieldName(j, tpl.exported), Type |-> tpl.Type, Tag |-> tpl.Tag]

\* every declaration over the types and tags above; the unexported ones
\* with any env tag, and with no default tag or the default "16"
AnyTemplates ==
    { Template(TRUE, t, TagOf(e, d)) : t \in Types, e \in EnvTags, d \in DefaultTags }
    \cup { Template(FALSE, t, TagOf(e, d)) :
                t \in Types, e \in EnvTags, d \in { << >>, << sSixteen >> } }

\* the declarations the other fields of the struct are drawn from: a
\* string and a *bool with a default, both read from A, a map read from A,
\* an unexported field with no env tag
CommonTemplates ==
    { Template(TRUE, tString, TagOf(<< sA >>, << >>)),
      Template(TRUE, PtrTo(tBool), TagOf(<< sA >>, << sTrue >>)),
      Template(TRUE, tMap, TagOf(<< sA >>, << >>)),
      Template(FALSE, tInt, TagOf(<< >>, << sSixteen >>)) }

\* the struct of n fields whose field k is declared by t and whose other
\* fields are all declared by c
StructOf(n, k, t, c) == [j \in 1..n |-> Decl(j, IF j = k THEN t ELSE c)]

\* the zero value of a type
ZeroValue(t) ==
    CASE Kind(t) = "String" -> Value(t, Empty)
      [] Kind(t) = "Bool" -> Value(t, FALSE)
      [] Kind(t) \in { "Int", "Int64", "Uint32", "Uint64" } -> Value(t, Zero)
      [] Kind(t) = "Slice" /\ Kind(Elem(t)) = "Uint8" -> Value(t, NilSlice)
      [] Kind(t) = "Ptr" -> Value(t, NilAddr)
      [] OTHER -> Value(t, "zero")

\* a value of the type that is not its zero value; a pointer points to addr
SetValue(t, addr) ==
    CASE Kind(t) = "String" -> Value(t, sJunk)
      [] Kind(t) = "Bool" -> Value(t, TRUE)
      [] Kind(t) \in { "Int", "Int64", "Uint32", "Uint64" } -> Value(t, Num(FALSE, << 7 >>))
      [] Kind(t) = "Slice" /\ Kind(Elem(t)) = "Uint8" -> Value(t, Bytes(sJunk))
      [] Kind(t) = "Ptr" -> Value(t, addr)
      [] OTHER -> Value(t, "set")

\* the pointer fields among the first j fields of fs
PointersBefore(fs, j) == { k \in 1..j : Kind(fs[k].Type) = "Ptr" }

\* A struct whose fields all hold values that are not zero values: the
\* pointer fields point to variables of their own on the heap.
SetVals(fs) ==
    [j \in 1..Len(fs) |-> SetValue(fs[j].Type, Cardinality(PointersBefore(fs, j)))]

SetHeap(fs) ==
    [a \in 1..Cardinality(PointersBefore(fs, Len(fs))) |->
        LET j == CHOOSE k \in 1..Len(fs) :
                     Kind(fs[k].Type) = "Ptr" /\ Cardinality(PointersBefore(fs, k)) = a
        IN  IF Kind(Elem(fs[j].Type)) = "Ptr" THEN ZeroValue(Elem(fs[j].Type))
            ELSE SetValue(Elem(fs[j].Type), NilAddr)]

ZeroVals(fs) == [j \in 1..Len(fs) |-> ZeroValue(fs[j].Type)]

\* no call of Parse has ended yet
NoCall == [pc |-> "none"]

Init ==
    /\ cfg \in CfgArgs
    /\ \/ fields = << >>
       \/ /\ cfg = StructPointer
          /\ \E n \in 1..MaxFields, k \in 1..MaxFields :
                /\ k <= n
                /\ \E t \in AnyTemplates, c \in CommonTemplates :
                      fields = StructOf(n, k, t, c)
    /\ env \in Envs
    /\ \E zeroed \in BOOLEAN :
          /\ vals = (IF zeroed THEN ZeroVals(fields) ELSE SetVals(fields))
          /\ heap = (IF zeroed THEN << >> ELSE SetHeap(fields))
    /\ vals0 = vals
    /\ pc = "call"
    /\ i = 1
    /\ err = Nil
    /\ prev = NoCall

(***************************************************************************)
(* The steps of a call of Parse.                                           *)
(***************************************************************************)
\* Parse up to its call of parseFields
Parse ==
    /\ pc = "call"
    /\ IF cfg.kind # "Ptr" \/ cfg.elemKind # "Struct"
           THEN pc' = "returned" /\ err' = ErrorNotAStructPointer
           ELSE pc' = "parseFields" /\ err' = err
    /\ UNCHANGED << cfg, fields, vals, vals0, heap, env, i, prev >>

\* an iteration of the loop that unsets the variable A once it has been
\* read
parseFieldsStepUnsetenv ==
    /\ pc = "parseFields"
    /\ i <= Len(fields)
    /\ LET r == parseField(fields[i], vals[i], heap, env)
       IN  /\ vals' = [vals EXCEPT ![i] = r.val]
           /\ heap' = r.heap
           /\ err' = r.err
           /\ pc' = CASE r.ctl = "ok" -> "parseFields"
                      [] r.ctl = "err" -> "returned"
                      [] r.ctl = "panic" -> "panicked"
           /\ i' = IF r.ctl = "ok" THEN i + 1 ELSE i
    /\ env' = (IF Get(fields[i].Tag, "env") \in { Empty, sDash } THEN env ELSE << >>)
    /\ UNCHANGED << cfg, fields, vals0, prev >>

\* one iteration of the loop of parseFields
parseFieldsStep ==
    /\ pc = "parseFields"
    /\ i <= Len(fields)
    /\ LET r == parseField(fields[i], vals[i], heap, env)
       IN  /\ vals' = [vals EXCEPT ![i] = r.val]
           /\ heap' = r.heap
           /\ err' = r.err
           /\ pc' = CASE r.ctl = "ok" -> "parseFields"
                      [] r.ctl = "err" -> "returned"
                      [] r.ctl = "panic" -> "panicked"
           /\ i' = IF r.ctl = "ok" THEN i + 1 ELSE i
    /\ UNCHANGED << cfg, fields, vals0, env, prev >>

\* the loop is over: parseFields, and Parse, return nil
parseFieldsReturn ==
    /\ pc = "parseFields"
    /\ i > Len(fields)
    /\ pc' = "returned"
    /\ err' = Nil
    /\ UNCHANGED << cfg, fields, vals, vals0, heap, env, i, prev >>

Next == Parse \/ parseFieldsStep \/ parseFieldsReturn

Spec == Init /\ [][Next]_vars

\* The caller, after a call on a zeroed struct has ended (by a return, or
\* by a panic it recovered from), declares another variable of the struct
\* type and calls Parse with its address: the new struct holds zero values
\* and what the first struct's pointers point to stays on the heap.
NewTarget ==
    /\ pc \in { "returned", "panicked" }
    /\ prev = NoCall
    /\ vals0 = ZeroVals(fields)
    /\ prev' = [pc |-> pc, err |-> err, vals |-> vals, heap |-> heap]
    /\ vals' = ZeroVals(fields)
    /\ vals0' = vals'
    /\ pc' = "call"
    /\ i' = 1
    /\ err' = Nil
    /\ UNCHANGED << cfg, fields, heap, env >>

NextTwice == Parse \/ parseFieldsStep \/ parseFieldsReturn \/ NewTarget

\* two calls of Parse, one after the other, on two structs of one type
SpecTwice == Init /\ [][NextTwice]_vars

(***************************************************************************)
(* Calls of Parse on structs with an int or *int field read from A, over   *)
(* strings around the ends of the 32-bit and 64-bit ranges.                *)
(***************************************************************************)
Signs == { Empty, << "+" >>, << "-" >> }

\* what follows the sign: digits with and without leading zeros, the
\* numbers at 2^31, 2^32, 2^63 and 2^64, and strings that are not digits
IntBodies ==
    { Empty,
      << "0" >>,
      << "7" >>,
      << "1", "6" >>,
      << "0", "0", "7" >>,
      << "2", "1", "4", "7", "4", "8", "3", "6", "4", "7" >>,
      << "2", "1", "4", "7", "4", "8", "3", "6", "4", "8" >>,
      << "2", "1", "4", "7", "4", "8", "3", "6", "4", "9" >>,
      << "0", "2", "1", "4", "7", "4", "8", "3", "6", "4", "8" >>,
      << "4", "2", "9", "4", "9", "6", "7", "2", "9", "5" >>,
      << "4", "2", "9", "4", "9", "6", "7", "2", "9", "6" >>,
      << "4", "2", "9", "4", "9", "6", "7", "2", "9", "7" >>,
      << "9", "9", "9", "9", "9", "9", "9", "9", "9", "9", "9" >>,
      << "9", "2", "2", "3", "3", "7", "2", "0", "3", "6", "8", "5", "4", "7", "7", "5", "8", "0", "7" >>,
      << "9", "2", "2", "3", "3", "7", "2", "0", "3", "6", "8", "5", "4", "7", "7", "5", "8", "0", "8" >>,
      << "1", "8", "4", "4", "6", "7", "4", "4", "0", "7", "3", "7", "0", "9", "5", "5", "1", "6", "1", "6" >>,
      << "1", "8", "4", "4", "6", "7", "4", "4", "0", "7", "3", "7", "0", "9", "5", "5", "1", "6", "1", "7" >>,
      << "1", "x" >>,
      << "x", "1" >>,
      << "1", ".", "5" >>,
      << " ", "1" >>,
      << "1", " " >>,
      << "1", "e", "3" >>,
      << "0", "x", "1", "0" >>,
      << "1", "_", "0", "0", "0" >>,
      << "1", "-" >> }

IntStrings ==
    { sg \o b : sg \in Signs, b \in IntBodies }
        \cup { << "-", "-", "1" >>, << "+", "-", "1" >> }

\* A is not set, or set to one of IntStrings
IntEnvs == { << >> } \cup { [n \in { sA } |-> v] : v \in IntStrings }

IntDefaultTags == { << >>, << sSixteen >>, << sBig32 >>, << sDash \o sBig32 >> }

\* the int and *int declarations, read from A
IntTemplates ==
    { Template(TRUE, t, TagOf(<< e >>, d)) :
        t \in { tInt, PtrTo(tInt) },
        e \in { sA, sA \o sComma \o sRequired },
        d \in IntDefaultTags }

InitInt ==
    /\ cfg = StructPointer
    /\ \E n \in 1..MaxFields, k \in 1..MaxFields :
          /\ k <= n
          /\ \E t \in IntTemplates, c \in CommonTemplates :
                fields = StructOf(n, k, t, c)
    /\ env \in IntEnvs
    /\ \E zeroed \in BOOLEAN :
          /\ vals = (IF zeroed THEN ZeroVals(fields) ELSE SetVals(fields))
          /\ heap = (IF zeroed THEN << >> ELSE SetHeap(fields))
    /\ vals0 = vals
    /\ pc = "call"
    /\ i = 1
    /\ err = Nil
    /\ prev = NoCall

SpecInt == InitInt /\ [][Next]_vars

(***************************************************************************)
(* What the claims speak about.  These definitions restate, field by       *)
(* field, what the documentation promises; none of them uses the           *)
(* operators that model the code's parsing and dispatch.                   *)
(***************************************************************************)
N == Len(fields)

\* the env tag of field j, "" when it has none
EnvTag(j) == Get(fields[j].Tag, "env")

DefaultTag(j) == Get(fields[j].Tag, "default")

\* field j carries an env tag that is not the skip mark
Tagged(j) == EnvTag(j) # Empty /\ EnvTag(j) # sDash

Exported(j) == Head(fields[j].Name) = "F"

\* the env tags of the model that carry the required flag; every env tag
\* of the model that names a variable names A
RequiredEnvTags ==
    { sA \o sComma \o sRequired, sA \o sComma \o sSpace \o sRequired \o sSpace }

Required(j) == EnvTag(j) \in RequiredEnvTags

\* the value of A: "" when it is not set
EnvValue == IF sA \in DOMAIN env THEN env[sA] ELSE Empty

\* the iteration of the loop for field j has run
Reached(j) ==
    /\ pc # "call"
    /\ j <= N
    /\ j < i \/ (j = i /\ pc \in { "returned", "panicked" })

\* ... and went on to the next field
Passed(j) == pc # "call" /\ j <= N /\ j < i

\* ... and made Parse return an error
FailedAt(j) == pc = "returned" /\ j <= N /\ j = i

\* the string field j is bound from, by the documented precedence
SourceOf(j) ==
    IF EnvValue = Empty /\ DefaultTag(j) # Empty /\ DefaultTag(j) # sDash
        THEN DefaultTag(j)
        ELSE EnvValue

\* The conversions of the strings of the model, by the documented table.
BoolConvertible(s) == s \in { Empty, sZero, sOne, sTrue }

IntConvertible(s, bits) ==
    s \in { Empty, sZero, sOne, sSixteen } \/ (bits = 64 /\ s = sBig32)

NumeralOf(s) ==
    CASE s \in { Empty, sZero } -> [neg |-> FALSE, mag |-> << 0 >>]
      [] s = sOne -> [neg |-> FALSE, mag |-> << 1 >>]
      [] s = sSixteen -> [neg |-> FALSE, mag |-> << 1, 6 >>]
      [] s = sBig32 -> [neg |-> FALSE, mag |-> << 2, 1, 4, 7, 4, 8, 3, 6, 4, 8 >>]

\* s converts to the type t, t not a pointer
Convertible(t, s) ==
    CASE Kind(t) = "Bool" -> BoolConvertible(s)
      [] Kind(t) = "Int" -> IntConvertible(s, 32)
      [] Kind(t) = "Int64" -> IntConvertible(s, 64)
      [] OTHER -> TRUE

\* the value of type t that s converts to, t not a pointer
Converted(t, s) ==
    CASE Kind(t) = "String" -> [type |-> t, v |-> s]
      [] Kind(t) = "Bool" -> [type |-> t, v |-> s \in { sOne, sTrue }]
      [] Kind(t) \in { "Int", "Int64" } -> [type |-> t, v |-> NumeralOf(s)]
      [] Kind(t) = "Slice" -> [type |-> t, v |-> [nil |-> FALSE, bytes |-> s]]

IsPointer(t) == Kind(t) = "Ptr"

\* the type the source string is converted to
TargetType(t) == IF IsPointer(t) THEN t.elem ELSE t

\* field j holds x: for a pointer field, it points to a variable holding x
Holds(j, x) ==
    IF IsPointer(fields[j].Type)
        THEN /\ vals[j].v # NilAddr
             /\ vals[j].v \in 1..Len(heap)
             /\ heap[vals[j].v] = x
        ELSE vals[j] = x

(***************************************************************************)
(* The claims.                                                             *)
(***************************************************************************)
\* C1: a settable field whose env tag carries the required flag, reached
\* while its variable is unset or empty, makes Parse return
\* ErrorEnvVarRequired with the name of the variable, whatever the default
\* tag, and the field keeps the value it had before the call.
C1_RequiredDominatesDefault ==
    \A j \in 1..N :
        (Required(j) /\ Exported(j) /\ EnvValue = Empty /\ Reached(j)) =>
            /\ FailedAt(j)
            /\ err = [type |-> "ErrorEnvVarRequired", Name |-> sA]
            /\ vals[j] = vals0[j]

\* C1 happens: a required int field with default "16" and a value that is
\* not zero, A not set, is where Parse returned
C1_Witness ==
    \E j \in 1..N :
        /\ Required(j) /\ Exported(j) /\ FailedAt(j)
        /\ sA \notin DOMAIN env
        /\ DefaultTag(j) = sSixteen
        /\ fields[j].Type = tInt
        /\ vals0[j].v = [neg |-> FALSE, mag |-> << 7 >>]

\* C2: after Parse returned nil, every tagged field of a supported type
\* holds the conversion of the default tag if the variable is empty and
\* the default is neither empty nor "-", and of the variable's value
\* otherwise.
C2_SourcePrecedence ==
    (pc = "returned" /\ err = Nil /\ cfg = StructPointer) =>
        \A j \in 1..N :
            (Tagged(j) /\ fields[j].Type \in SupportedTypes) =>
                /\ Convertible(TargetType(fields[j].Type), SourceOf(j))
                /\ Holds(j, Converted(TargetType(fields[j].Type), SourceOf(j)))

\* C2 happens: a required int field with default "16" holds 1 after A=1
C2_Witness ==
    /\ pc = "returned" /\ err = Nil
    /\ \E j \in 1..N :
          /\ Required(j) /\ fields[j].Type = tInt
          /\ DefaultTag(j) = sSixteen
          /\ EnvValue = sOne
          /\ vals[j].v = [neg |-> FALSE, mag |-> << 1 >>]
          /\ vals0[j].v = [neg |-> FALSE, mag |-> << 7 >>]

\* field j holds the zero value of the documentation: "", false, 0, no
\* bytes; a pointer field points to a variable holding it
HoldsZero(j) ==
    LET t == TargetType(fields[j].Type)
    IN  IF Kind(t) = "Slice"
            THEN \E b \in BOOLEAN : Holds(j, [type |-> t, v |-> [nil |-> b, bytes |-> Empty]])
            ELSE Holds(j, Converted(t, Empty))

\* field j is one the zero value rule speaks about
ZeroCase(j) ==
    /\ Tagged(j) /\ Exported(j) /\ ~Required(j)
    /\ fields[j].Type \in SupportedTypes
    /\ EnvValue = Empty
    /\ DefaultTag(j) \in { Empty, sDash }

\* C3: a tagged, settable field of a supported type that is not required,
\* reached while its variable is unset or empty and its default tag is
\* absent, empty or "-", is given the zero value and Parse goes on.
C3_ZeroValueFallback ==
    \A j \in 1..N :
        (ZeroCase(j) /\ Reached(j)) => (Passed(j) /\ HoldsZero(j))

\* the same for every supported type but *int64
C3_ExceptInt64Pointer ==
    \A j \in 1..N :
        (ZeroCase(j) /\ Reached(j) /\ fields[j].Type # PtrTo(tInt64)) =>
            (Passed(j) /\ HoldsZero(j))

\* field j is a nil pointer field of a supported type whose source string
\* converts
PointerCase(j) ==
    /\ IsPointer(fields[j].Type) /\ fields[j].Type \in SupportedTypes
    /\ Tagged(j) /\ Exported(j)
    /\ vals0[j].v = NilAddr
    /\ ~(Required(j) /\ EnvValue = Empty)
    /\ Convertible(TargetType(fields[j].Type), SourceOf(j))

\* field j points to a variable no other field points to
PointsToItsOwn(j) ==
    /\ vals[j].v # NilAddr
    /\ \A k \in 1..N : (k # j /\ IsPointer(fields[k].Type)) => vals[k].v # vals[j].v

\* C4: a tagged pointer field of a supported type that was nil, once
\* processed, points to a new variable that holds what the field without
\* the pointer would hold.
C4_PointerAllocated ==
    \A j \in 1..N :
        (PointerCase(j) /\ Reached(j)) =>
            /\ Passed(j)
            /\ PointsToItsOwn(j)
            /\ Holds(j, Converted(TargetType(fields[j].Type), SourceOf(j)))

\* the same unless the field is a *int64 bound from the empty string
C4_ExceptInt64PointerZero ==
    \A j \in 1..N :
        (/\ PointerCase(j) /\ Reached(j)
         /\ ~(fields[j].Type = PtrTo(tInt64) /\ SourceOf(j) = Empty)) =>
            /\ Passed(j)
            /\ PointsToItsOwn(j)
            /\ Holds(j, Converted(TargetType(fields[j].Type), SourceOf(j)))

ErrorTaxonomy ==
    { "ErrorNotAStructPointer", "ErrorUnsettable", "ErrorUnsupportedType",
      "ErrorEnvVarRequired", "NumError" }

\* C5: no call of Parse panics; it ends returning nil or an error of the
\* taxonomy.
C5_NeverPanics ==
    /\ pc # "panicked"
    /\ pc = "returned" => (err = Nil \/ err.type \in ErrorTaxonomy)

\* a call that returns, returns nil or an error of the taxonomy
C5_ReturnsTaxonomy ==
    pc = "returned" => (err = Nil \/ err.type \in ErrorTaxonomy)

\* the declaration without its env tag
WithoutEnvTag(decl) ==
    [decl EXCEPT !.Tag = [k \in (DOMAIN decl.Tag) \ { "env" } |-> decl.Tag[k]]]

\* C6: a field whose env tag is absent, empty or "-" is never written, and
\* does not stop Parse; with the tag "-" the loop body does exactly what it
\* does with no env tag.
C6_UntaggedUntouched ==
    \A j \in 1..N :
        ~Tagged(j) =>
            /\ vals[j] = vals0[j]
            /\ Reached(j) => Passed(j)
            /\ EnvTag(j) = sDash =>
                  parseField(fields[j], vals[j], heap, env)
                      = parseField(WithoutEnvTag(fields[j]), vals[j], heap, env)

\* C6 happens: an exported int field tagged env:"-" default:"16" holding 7
\* was passed with A=1
C6_Witness ==
    \E j \in 1..N :
        /\ EnvTag(j) = sDash /\ Exported(j) /\ DefaultTag(j) = sSixteen
        /\ fields[j].Type = tInt
        /\ vals0[j].v = [neg |-> FALSE, mag |-> << 7 >>]
        /\ EnvValue = sOne
        /\ Passed(j)

\* processing field j fails, by the documentation
FieldFails(j) ==
    /\ Tagged(j)
    /\ \/ ~Exported(j)
       \/ Required(j) /\ EnvValue = Empty
       \/ fields[j].Type \notin SupportedTypes
       \/ ~Convertible(TargetType(fields[j].Type), SourceOf(j))

ExpectedErrorType(j) ==
    IF ~Exported(j) THEN "ErrorUnsettable"
    ELSE IF Required(j) /\ EnvValue = Empty THEN "ErrorEnvVarRequired"
    ELSE IF fields[j].Type \notin SupportedTypes THEN "ErrorUnsupportedType"
    ELSE "NumError"

\* C7: when Parse returns an error, it is the error of the first field, in
\* declaration order, whose processing fails; the tagged fields before it
\* hold their new values; that field and the fields after it hold the
\* values they had before the call.
C7_FailFast ==
    (pc = "returned" /\ err # Nil /\ cfg = StructPointer) =>
        /\ i \in 1..N
        /\ FieldFails(i)
        /\ err.type = ExpectedErrorType(i)
        /\ \A j \in 1..(i - 1) :
              /\ ~FieldFails(j)
              /\ Tagged(j) => Holds(j, Converted(TargetType(fields[j].Type), SourceOf(j)))
        /\ \A j \in i..N : vals[j] = vals0[j]

\* C7 happens: Parse returned the error of the second field after it
\* changed the first
C7_Witness ==
    /\ pc = "returned" /\ err # Nil
    /\ i = 2
    /\ Tagged(1)
    /\ vals[1] # vals0[1]
    /\ vals0[2].v # ZeroValue(fields[2].Type).v

\* C8 as stated, for the fields that can be set: a tagged field of an
\* unsupported type, when reached, makes Parse return
\* ErrorUnsupportedType with its type for every value of the variable,
\* required flag and default tag.
C8_AlwaysUnsupportedType ==
    \A j \in 1..N :
        (/\ Tagged(j) /\ Exported(j) /\ Reached(j)
         /\ fields[j].Type \notin SupportedTypes) =>
            /\ FailedAt(j)
            /\ err = [type |-> "ErrorUnsupportedType", Type |-> fields[j].Type]

\* C8 amended: ... unless the field cannot be set (ErrorUnsettable) or is
\* required while its variable is unset or empty (ErrorEnvVarRequired);
\* the field is not written.
C8_UnsupportedTypeAfterRequired ==
    \A j \in 1..N :
        (Tagged(j) /\ Reached(j) /\ fields[j].Type \notin SupportedTypes) =>
            /\ FailedAt(j)
            /\ vals[j] = vals0[j]
            /\ err = IF ~Exported(j)
                         THEN [type |-> "ErrorUnsettable", FieldName |-> fields[j].Name]
                     ELSE IF Required(j) /\ EnvValue = Empty
                         THEN [type |-> "ErrorEnvVarRequired", Name |-> sA]
                     ELSE [type |-> "ErrorUnsupportedType", Type |-> fields[j].Type]

\* C8 happens: an exported, required []int field with a default is where
\* Parse returned ErrorUnsupportedType, A=1
C8_Witness ==
    \E j \in 1..N :
        /\ fields[j].Type = SliceOf(tInt)
        /\ Exported(j) /\ Required(j) /\ DefaultTag(j) = sSixteen
        /\ EnvValue = sOne
        /\ FailedAt(j)
        /\ err.type = "ErrorUnsupportedType"

UnsignedTypes == { tUint32, tUint64 }

\* field j is a tagged, settable unsigned field that is not stopped by the
\* required flag
UnsignedCase(j) ==
    /\ fields[j].Type \in UnsignedTypes
    /\ Tagged(j) /\ Exported(j)
    /\ ~(Required(j) /\ EnvValue = Empty)

\* C9 as stated: a tagged uint32 or uint64 field is given 0 from the empty
\* string and the number from a string of digits, and Parse goes on.
C9_UnsignedSupported ==
    \A j \in 1..N :
        (/\ UnsignedCase(j) /\ Reached(j)
         /\ SourceOf(j) \in { Empty, sZero, sOne, sSixteen, sBig32 }) =>
            /\ Passed(j)
            /\ vals[j] = [type |-> fields[j].Type, v |-> NumeralOf(SourceOf(j))]

\* C9 amended: uint32 and uint64 are not supported: the field makes Parse
\* return ErrorUnsupportedType with its type, whatever the source string,
\* and is not written.
C9_UnsignedUnsupported ==
    \A j \in 1..N :
        (UnsignedCase(j) /\ Reached(j)) =>
            /\ FailedAt(j)
            /\ err = [type |-> "ErrorUnsupportedType", Type |-> fields[j].Type]
            /\ vals[j] = vals0[j]

\* C9 happens: a uint64 field holding 7 is where Parse returned, A=1
C9_Witness ==
    \E j \in 1..N :
        /\ UnsignedCase(j) /\ fields[j].Type = tUint64
        /\ EnvValue = sOne
        /\ vals0[j].v = [neg |-> FALSE, mag |-> << 7 >>]
        /\ FailedAt(j)

\* the source string of field j does not convert to its type
ConversionFails(j) ==
    /\ Tagged(j) /\ Exported(j)
    /\ ~(Required(j) /\ EnvValue = Empty)
    /\ fields[j].Type \in SupportedTypes
    /\ ~Convertible(TargetType(fields[j].Type), SourceOf(j))

\* the field or variable names an error carries
ErrorContext(e) ==
    (IF "FieldName" \in DOMAIN e THEN { e.FieldName } ELSE {})
        \cup (IF "Name" \in DOMAIN e THEN { e.Name } ELSE {})

\* C10 as stated: the error of a failed conversion carries the name of the
\* field or of the variable.
C10_ErrorNamesField ==
    \A j \in 1..N :
        (ConversionFails(j) /\ FailedAt(j)) =>
            (fields[j].Name \in ErrorContext(err) \/ sA \in ErrorContext(err))

\* C10 amended: the error of a failed conversion is the error of strconv
\* as it is: the function, the source string and the cause, and no name of
\* a field or a variable.
C10_BareNumError ==
    \A j \in 1..N :
        (ConversionFails(j) /\ Reached(j)) =>
            /\ FailedAt(j)
            /\ ErrorContext(err) = {}
            /\ err = [type |-> "NumError",
                      Func |-> IF Kind(TargetType(fields[j].Type)) = "Bool"
                                   THEN "ParseBool" ELSE "ParseInt",
                      Num |-> SourceOf(j),
                      Err |-> IF Kind(TargetType(fields[j].Type)) = "Int"
                                     /\ SourceOf(j) = sBig32
                                  THEN "ErrRange" ELSE "ErrSyntax"]

\* C10 happens: a *bool field bound from its default "16" is where Parse
\* returned a syntax error
C10_Witness ==
    \E j \in 1..N :
        /\ ConversionFails(j) /\ FailedAt(j)
        /\ fields[j].Type = PtrTo(tBool)
        /\ EnvValue = Empty /\ DefaultTag(j) = sSixteen
        /\ err.Num = sSixteen

\* C11: a field that carries an env tag (other than "-") and cannot be set
\* makes Parse return ErrorUnsettable with the name of the field when it is
\* reached, whatever the environment, the required flag, the default tag
\* and the type of the field, and the field is not written; an unexported
\* field without such a tag is passed over unchanged, and a struct whose
\* fields are all unexported and untagged parses with a nil error and no
\* field changed.
C11_UnsettableFirst ==
    /\ \A j \in 1..N :
          (Tagged(j) /\ ~Exported(j) /\ Reached(j)) =>
              /\ FailedAt(j)
              /\ err = [type |-> "ErrorUnsettable", FieldName |-> fields[j].Name]
              /\ vals[j] = vals0[j]
    /\ \A j \in 1..N :
          (~Tagged(j) /\ ~Exported(j)) =>
              /\ vals[j] = vals0[j]
              /\ Reached(j) => Passed(j)
    /\ (/\ cfg = StructPointer
        /\ \A j \in 1..N : ~Tagged(j) /\ ~Exported(j)
        /\ pc \notin { "call", "parseFields" }) =>
            /\ pc = "returned"
            /\ err = [type |-> "nil"]
            /\ vals = vals0
            /\ i = N + 1

\* C11 happens: an unexported map field holding a value, tagged required
\* with a default, is where Parse returned ErrorUnsettable while A is unset
C11_Witness ==
    \E j \in 1..N :
        /\ ~Exported(j) /\ Required(j) /\ DefaultTag(j) = sSixteen
        /\ fields[j].Type = [kind |-> "Map"]
        /\ vals0[j].v = "set"
        /\ EnvValue = Empty
        /\ FailedAt(j)
        /\ err = [type |-> "ErrorUnsettable", FieldName |-> fields[j].Name]

\* C11 happens, second part: Parse returned nil on a struct of two
\* unexported fields without env tags, both holding values
C11_NoOpWitness ==
    /\ N = 2
    /\ \A j \in 1..N : ~Tagged(j) /\ ~Exported(j) /\ vals0[j].v # ZeroValue(fields[j].Type).v
    /\ pc = "returned" /\ err = [type |-> "nil"]

\* what a field holds, for the comparison of two structs: a pointer field
\* is nil or holds what it points to on the heap h
Pointee(x, h) ==
    IF IsPointer(x.type)
        THEN IF x.v = 0 THEN [nil |-> TRUE] ELSE [nil |-> FALSE, to |-> h[x.v]]
        ELSE x

\* a second call, on a second zeroed struct of the type, has ended
SecondEnded == prev.pc # "none" /\ pc \in { "returned", "panicked" }

\* the two calls ended the same way, with the same error, and the two
\* structs are equal field for field; the second call left the first
\* struct as it was
SameOutcome ==
    SecondEnded =>
        /\ pc = prev.pc
        /\ err = prev.err
        /\ \A j \in 1..N : Pointee(vals[j], heap) = Pointee(prev.vals[j], prev.heap)
        /\ \A j \in 1..N : Pointee(prev.vals[j], heap) = Pointee(prev.vals[j], prev.heap)

Unsigned(s) ==
    IF s # << >> /\ s[1] \in { "+", "-" } THEN SubSeq(s, 2, Len(s)) ELSE s

Negative(s) == s # << >> /\ s[1] = "-"

\* an optional sign and then one decimal digit or more
IsBase10(s) ==
    /\ Unsigned(s) # << >>
    /\ \A k \in DOMAIN Unsigned(s) :
          Unsigned(s)[k] \in { "0", "1", "2", "3", "4", "5", "6", "7", "8", "9" }

DigitOf(c) ==
    CASE c = "0" -> 0 [] c = "1" -> 1 [] c = "2" -> 2 [] c = "3" -> 3 [] c = "4" -> 4
      [] c = "5" -> 5 [] c = "6" -> 6 [] c = "7" -> 7 [] c = "8" -> 8 [] c = "9" -> 9

\* the digits from the first that is not 0; "0" for zeros alone
Significant(ds) ==
    LET nz == { k \in DOMAIN ds : ds[k] # "0" }
    IN  IF nz = {} THEN << "0" >>
        ELSE SubSeq(ds, CHOOSE k \in nz : \A m \in nz : k <= m, Len(ds))

\* the number that at most nine digits write
RECURSIVE NatOf(_)
NatOf(ds) ==
    IF ds = << >> THEN 0
    ELSE 10 * NatOf(SubSeq(ds, 1, Len(ds) - 1)) + DigitOf(ds[Len(ds)])

\* s is a base-10 integer from -2^31 to 2^31 - 1: 2^31 = 214748364 * 10 + 8
InInt32(s) ==
    /\ IsBase10(s)
    /\ LET d == Significant(Unsigned(s))
       IN  \/ Len(d) <= 9
           \/ /\ Len(d) = 10
              /\ \/ NatOf(SubSeq(d, 1, 9)) < 214748364
                 \/ /\ NatOf(SubSeq(d, 1, 9)) = 214748364
                    /\ DigitOf(d[10]) <= (IF Negative(s) THEN 8 ELSE 7)

\* the integer that s writes, as a numeral
IntegerOf(s) ==
    LET d == Significant(Unsigned(s))
    IN  [neg |-> Negative(s) /\ d # << "0" >>,
         mag |-> [k \in 1..Len(d) |-> DigitOf(d[k])]]

\* field j is a tagged int or *int field that can be set, is not stopped
\* by the required flag, and has a source string that is not empty
IntCase(j) ==
    /\ fields[j].Type \in { [kind |-> "Int"], [kind |-> "Ptr", elem |-> [kind |-> "Int"]] }
    /\ Tagged(j) /\ Exported(j)
    /\ ~(Required(j) /\ EnvValue = Empty)
    /\ SourceOf(j) # Empty

\* field j is as it was before the call, and so is what it pointed to
AsBefore(j) ==
    /\ vals[j] = vals0[j]
    /\ (IsPointer(fields[j].Type) /\ vals0[j].v # 0) =>
          heap[vals0[j].v] = [type |-> [kind |-> "Int"], v |-> [neg |-> FALSE, mag |-> << 7 >>]]

\* C13: a tagged int or *int field with a non-empty source string, when
\* reached: if the string is a base-10 integer from -2^31 to 2^31 - 1 the
\* field (or what it points to) holds that integer and Parse goes on;
\* otherwise Parse returns the conversion error and the field is as it was
\* before the call: no truncated or wrapped value is written.
C13_Int32Range ==
    \A j \in 1..N :
        (IntCase(j) /\ Reached(j)) =>
            IF InInt32(SourceOf(j))
                THEN /\ Passed(j)
                     /\ Holds(j, [type |-> [kind |-> "Int"], v |-> IntegerOf(SourceOf(j))])
                ELSE /\ FailedAt(j)
                     /\ err.type = "NumError"
                     /\ AsBefore(j)

\* C13 happens: a *int field pointing to 7 is where Parse returned an
\* error for A=4294967297, which is 1 modulo 2^32, and it still points to 7
C13_Witness ==
    \E j \in 1..N :
        /\ IntCase(j) /\ FailedAt(j)
        /\ IsPointer(fields[j].Type)
        /\ EnvValue = << "4", "2", "9", "4", "9", "6", "7", "2", "9", "7" >>
        /\ vals0[j].v # 0
        /\ heap[vals[j].v].v = [neg |-> FALSE, mag |-> << 7 >>]

\* C13 happens, at the ends of the range: an int field holding 7 was given
\* -2^31 from A=-2147483648, or 2^31 - 1 from A=+2147483647
C13_LowestWitness ==
    \E j \in 1..N :
        /\ IntCase(j) /\ Passed(j)
        /\ ~IsPointer(fields[j].Type)
        /\ EnvValue = << "-", "2", "1", "4", "7", "4", "8", "3", "6", "4", "8" >>
        /\ vals0[j].v = [neg |-> FALSE, mag |-> << 7 >>]
        /\ vals[j].v = [neg |-> TRUE, mag |-> << 2, 1, 4, 7, 4, 8, 3, 6, 4, 8 >>]

C13_HighestWitness ==
    \E j \in 1..N :
        /\ IntCase(j) /\ Passed(j)
        /\ ~IsPointer(fields[j].Type)
        /\ EnvValue = << "+", "2", "1", "4", "7", "4", "8", "3", "6", "4", "7" >>
        /\ vals0[j].v = [neg |-> FALSE, mag |-> << 7 >>]
        /\ vals[j].v = [neg |-> FALSE, mag |-> << 2, 1, 4, 7, 4, 8, 3, 6, 4, 7 >>]

=============================================================================
